---- MODULE Spec2Model ----
(***************************************************************************)
(* WebSocket frame codec of actix-web (src/ws/frame.rs): Frame::parse with *)
(* its two header readers read_chunk_md / read_copy_md, and Frame::message.*)
(* The byte source (PayloadHelper), the opcode table (ws::proto) and the   *)
(* mask cipher (ws::mask) live outside frame.rs and are modelled from the  *)
(* specification's contracts.                                              *)
(***************************************************************************)
EXTENDS Integers, Sequences, FiniteSets, TLC

VARIABLES
    items,   \* PayloadHelper: the chunks buffered, oldest first
    ready,   \* the chunks the stream yields on its next polls
    wire,    \* the bytes the transport has not yet cut into chunks
    eof,     \* the stream has ended
    cuts,    \* chunks the transport may still cut
    sent,    \* the frames the peer sent, each with its bytes
    all,     \* every byte the peer sent
    result,  \* the outcome of the last parse call and what the caller saw
    out      \* the frames parse returned so far

vars == <<items, ready, wire, eof, cuts, sent, all, result, out>>

(***************************************************************************)
(* Bounds of the model.                                                    *)
(***************************************************************************)
\* longest short payload drawn for a frame
MaxLen == 1
\* most frames put back to back on the wire
MaxFrames == 2
\* most chunks the transport splits the wire into
MaxChunks == 3
\* most chunks where the frames are many or long
FewChunks == 2
\* largest size of a chunk that is not "all the rest of the wire"
MaxCut == 16
\* a payload length that wraps around the four bytes of the mask key
MaskLen == 5
\* size of a first chunk that ends inside the header
HeadCut == 1
\* the small max_size ceiling offered to parse (0 in test_parse_frame_max_size)
SmallMax == 0
\* the large max_size ceiling offered to parse (1024 in the tests)
BigMax == 1024
\* the long payload length, the first one past the control-frame limit
LongLen == 126

(***************************************************************************)
(* Bytes and sequences of bytes.                                           *)
(***************************************************************************)
Take(s, n) == SubSeq(s, 1, n)

Drop(s, n) == SubSeq(s, n + 1, Len(s))

RECURSIVE Flat(_)
Flat(chunks) ==
    IF chunks = <<>> THEN <<>> ELSE Head(chunks) \o Flat(Tail(chunks))

RECURSIVE Xor8(_, _)
Xor8(a, b) ==
    IF a = 0 THEN b
    ELSE IF b = 0 THEN a
    ELSE (((a % 2) + (b % 2)) % 2) + 2 * Xor8(a \div 2, b \div 2)

(***************************************************************************)
(* usize.  A usize is an integer modulo 2^64; the model writes it as the   *)
(* integer itself when it is small and as -k when it is 2^64 - k, so that  *)
(* + is the wrapping addition of a release build and the order of usize is *)
(* ULt.  Values far from both ends of the range are not drawn.             *)
(***************************************************************************)
\* usize::max_value()
UsizeMax == 0 - 1

ULt(a, b) == IF (a >= 0) = (b >= 0) THEN a < b ELSE b < 0

ULe(a, b) == a = b \/ ULt(a, b)

UGt(a, b) == ULt(b, a)

\* read_uint taking the bytes least significant first
RECURSIVE read_uint_le(_, _, _)
read_uint_le(buf, idx, n) ==
    IF n = 0 THEN 0
    ELSE buf[idx + 1] + 256 * read_uint_le(buf, idx + 1, n - 1)

\* NetworkEndian::read_uint(&buf[idx..], n): big-endian unsigned integer
\* (.. as usize): eight bytes whose top bit is set are 2^64 - k, written -k
RECURSIVE be_uint(_, _, _, _)
be_uint(buf, idx, n, top) ==
    IF n = 1 THEN top
    ELSE 256 * be_uint(buf, idx, n - 1, top) + buf[idx + n]

read_uint(buf, idx, n) ==
    IF n = 0 THEN 0
    ELSE be_uint(buf, idx, n,
                 IF n = 8 /\ buf[idx + 1] >= 128 THEN buf[idx + 1] - 256
                 ELSE buf[idx + 1])

\* BigEndian::write_u16 / write_u64: n big-endian bytes of v
RECURSIVE write_uint(_, _)
write_uint(v, n) ==
    IF n = 0 THEN <<>>
    ELSE write_uint(v \div 256, n - 1) \o <<v % 256>>

(***************************************************************************)
(* ws::proto::OpCode (outside frame.rs): the opcode table.                 *)
(***************************************************************************)
OpCodes == {"Continuation", "Text", "Binary", "Close", "Ping", "Pong"}

OpCodeFrom(nibble) ==
    CASE nibble = 0 -> "Continuation"
      [] nibble = 1 -> "Text"
      [] nibble = 2 -> "Binary"
      [] nibble = 8 -> "Close"
      [] nibble = 9 -> "Ping"
      [] nibble = 10 -> "Pong"
      [] OTHER -> "Bad"

OpCodeToU8(code) ==
    CASE code = "Continuation" -> 0
      [] code = "Text" -> 1
      [] code = "Binary" -> 2
      [] code = "Close" -> 8
      [] code = "Ping" -> 9
      [] code = "Pong" -> 10

\* ws::proto::CloseCode (outside frame.rs) and its Into<u16>
CloseCodes == {"Normal", "Away", "Protocol", "Empty"}

CloseCodeToU16(code) ==
    CASE code = "Normal" -> 1000
      [] code = "Away" -> 1001
      [] code = "Protocol" -> 1002
      [] code = "Empty" -> 0

(***************************************************************************)
(* ws::mask::apply_mask (outside frame.rs): XOR byte i with key byte       *)
(* i mod 4.  The u32 mask is kept as its four bytes in memory order        *)
(* (ptr::read_unaligned of the four key bytes).                            *)
(***************************************************************************)
apply_mask(buf, mask) ==
    [i \in 1..Len(buf) |-> Xor8(buf[i], mask[((i - 1) % 4) + 1])]

(***************************************************************************)
(* PayloadHelper (outside frame.rs): the incremental byte source.  A       *)
(* helper state h is [items, ready]: the chunks already buffered and the   *)
(* chunks the stream hands out on its next polls; eof tells whether the    *)
(* stream ends after them.                                                 *)
(***************************************************************************)
BufLen(h) == Len(Flat(h.items))

\* poll the stream until n bytes are buffered or the stream has no chunk
RECURSIVE PollUntil(_, _)
PollUntil(h, n) ==
    IF ULe(n, BufLen(h)) \/ h.ready = <<>> THEN h
    ELSE PollUntil([items |-> Append(h.items, Head(h.ready)),
                    ready |-> Tail(h.ready)], n)

\* outcome of a request that needs n buffered bytes, after polling
Avail(h, e, n) ==
    IF ULe(n, BufLen(h)) THEN "Ready"
    ELSE IF e THEN "None" ELSE "NotReady"

\* get_chunk: the front chunk, polling once when nothing is buffered
get_chunk(h, e) ==
    LET h1 == IF h.items = <<>> /\ h.ready # <<>>
              THEN [items |-> <<Head(h.ready)>>, ready |-> Tail(h.ready)]
              ELSE h
    IN IF h1.items # <<>> THEN [t |-> "Ready", chunk |-> Head(h1.items), h |-> h1]
       ELSE IF e THEN [t |-> "None", chunk |-> <<>>, h |-> h1]
       ELSE [t |-> "NotReady", chunk |-> <<>>, h |-> h1]

\* copy(n): the first n buffered bytes, coalesced, nothing consumed
copy(h, e, n) ==
    LET h1 == PollUntil(h, n)
        t == Avail(h1, e, n)
    IN [t |-> t,
        buf |-> IF t = "Ready" THEN Take(Flat(h1.items), n) ELSE <<>>,
        h |-> h1]

\* can_read(n): are n bytes buffered
can_read(h, e, n) ==
    LET h1 == PollUntil(h, n)
    IN [t |-> Avail(h1, e, n), h |-> h1]

RECURSIVE DropItems(_, _)
DropItems(chunks, n) ==
    IF n = 0 \/ chunks = <<>> THEN chunks
    ELSE IF n >= Len(Head(chunks))
         THEN DropItems(Tail(chunks), n - Len(Head(chunks)))
         ELSE <<Drop(Head(chunks), n)>> \o Tail(chunks)

\* drop_payload(n): discard n buffered bytes
drop_payload(h, n) == [items |-> DropItems(h.items, n), ready |-> h.ready]

\* read_exact(n): consume and return exactly n bytes
read_exact(h, e, n) ==
    LET h1 == PollUntil(h, n)
        t == Avail(h1, e, n)
    IN [t |-> t,
        buf |-> IF t = "Ready" THEN Take(Flat(h1.items), n) ELSE <<>>,
        h |-> IF t = "Ready" THEN drop_payload(h1, n) ELSE h1]

(***************************************************************************)
(* Outcomes.  A header outcome md is one record shape for NotReady, None,  *)
(* Err and Ready; a parse outcome is one record shape for Pending, None,   *)
(* Err, Panic and Frame.                                                   *)
(***************************************************************************)
NoMask == <<>>

Md(t, e, v, idx, finished, opcode, length, mask) ==
    [t |-> t, e |-> e, v |-> v, idx |-> idx, finished |-> finished,
     opcode |-> opcode, length |-> length, mask |-> mask]

MdNotReady == Md("NotReady", "", 0, 0, FALSE, "Bad", 0, NoMask)

MdNone == Md("None", "", 0, 0, FALSE, "Bad", 0, NoMask)

MdErr(e, v) == Md("Err", e, v, 0, FALSE, "Bad", 0, NoMask)

MdReady(idx, finished, opcode, length, mask) ==
    Md("Ready", "", 0, idx, finished, opcode, length, mask)

Res(t, e, v, finished, opcode, payload) ==
    [t |-> t, e |-> e, v |-> v, finished |-> finished, opcode |-> opcode,
     payload |-> payload]

ResPending == Res("Pending", "", 0, FALSE, "Bad", <<>>)

ResNone == Res("None", "", 0, FALSE, "Bad", <<>>)

ResPanic == Res("Panic", "", 0, FALSE, "Bad", <<>>)

ResErr(e, v) == Res("Err", e, v, FALSE, "Bad", <<>>)

ResFrame(finished, opcode, payload) == Res("Frame", "", 0, finished, opcode, payload)

\* impl Default for Frame
FrameDefault == ResFrame(TRUE, "Close", <<>>)

(***************************************************************************)
(* Frame::read_chunk_md: the header read from one contiguous chunk.        *)
(***************************************************************************)
\* the masking check of read_chunk_md: "" or the error
chunk_masking(masked, server) ==
    IF ~masked /\ server THEN "UnmaskedFrame"
    ELSE IF masked /\ ~server THEN "MaskedFrame"
    ELSE ""

\* the size ceiling of read_chunk_md written with >=
chunk_overflow_ge(length, max_size) == ULe(max_size, length)

\* the size ceiling of read_chunk_md
chunk_overflow(length, max_size) == UGt(length, max_size)

\* read_chunk_md checking the opcode before the masking
read_chunk_md_opcode_first(chunk, server, max_size) ==
    LET chunk_len == Len(chunk) IN
    IF chunk_len < 2 THEN MdNotReady
    ELSE
    LET first == chunk[1]
        second == chunk[2]
        finished == (first \div 128) % 2 # 0
        masked == (second \div 128) % 2 # 0
        opcode == OpCodeFrom(first % 16)
        len == second % 128
    IN
    IF opcode = "Bad" THEN MdErr("InvalidOpcode", first % 16)
    ELSE IF chunk_masking(masked, server) # "" THEN MdErr(chunk_masking(masked, server), 0)
    ELSE IF len = 126 /\ chunk_len < 4 THEN MdNotReady
    ELSE IF len = 127 /\ chunk_len < 10 THEN MdNotReady
    ELSE
    LET length == IF len = 126 THEN read_uint(chunk, 2, 2)
                  ELSE IF len = 127 THEN read_uint(chunk, 2, 8)
                  ELSE len
        idx == IF len = 126 THEN 4 ELSE IF len = 127 THEN 10 ELSE 2
    IN
    IF chunk_overflow(length, max_size) THEN MdErr("Overflow", 0)
    ELSE IF server
         THEN IF chunk_len < idx + 4 THEN MdNotReady
              ELSE MdReady(idx + 4, finished, opcode, length,
                           SubSeq(chunk, idx + 1, idx + 4))
         ELSE MdReady(idx, finished, opcode, length, NoMask)

read_chunk_md(chunk, server, max_size) ==
    LET chunk_len == Len(chunk) IN
    IF chunk_len < 2 THEN MdNotReady
    ELSE
    LET first == chunk[1]
        second == chunk[2]
        finished == (first \div 128) % 2 # 0
        masked == (second \div 128) % 2 # 0
        opcode == OpCodeFrom(first % 16)
        len == second % 128
    IN
    IF chunk_masking(masked, server) # "" THEN MdErr(chunk_masking(masked, server), 0)
    ELSE IF opcode = "Bad" THEN MdErr("InvalidOpcode", first % 16)
    ELSE IF len = 126 /\ chunk_len < 4 THEN MdNotReady
    ELSE IF len = 127 /\ chunk_len < 10 THEN MdNotReady
    ELSE
    LET length == IF len = 126 THEN read_uint(chunk, 2, 2)
                  ELSE IF len = 127 THEN read_uint(chunk, 2, 8)
                  ELSE len
        idx == IF len = 126 THEN 4 ELSE IF len = 127 THEN 10 ELSE 2
    IN
    IF chunk_overflow(length, max_size) THEN MdErr("Overflow", 0)
    ELSE IF server
         THEN IF chunk_len < idx + 4 THEN MdNotReady
              ELSE MdReady(idx + 4, finished, opcode, length,
                           SubSeq(chunk, idx + 1, idx + 4))
         ELSE MdReady(idx, finished, opcode, length, NoMask)

(***************************************************************************)
(* Frame::read_copy_md: the header copied out of the source, 2 bytes, then *)
(* 4 or 10, then the mask key.  Returns the outcome and the helper state.  *)
(***************************************************************************)
\* the masking check of read_copy_md without its client branch
copy_masking_server_only(masked, server) ==
    IF ~masked /\ server THEN "UnmaskedFrame" ELSE ""

\* the masking check of read_copy_md: "" or the error
copy_masking(masked, server) ==
    IF ~masked /\ server THEN "UnmaskedFrame"
    ELSE IF masked /\ ~server THEN "MaskedFrame"
    ELSE ""

\* the size ceiling of read_copy_md written with >=
copy_overflow_ge(length, max_size) == ULe(max_size, length)

\* the size ceiling of read_copy_md
copy_overflow(length, max_size) == UGt(length, max_size)

\* a copy that did not return bytes always taken as NotReady
CopyEnd_not_ready(c) == [md |-> MdNotReady, h |-> c.h]

\* a copy that did not return bytes ends read_copy_md with None or NotReady
CopyEnd(c) == [md |-> IF c.t = "None" THEN MdNone ELSE MdNotReady, h |-> c.h]

\* read_copy_md reporting the whole first byte as the invalid opcode
read_copy_md_first_byte(pl, e, server, max_size) ==
    LET c2 == copy(pl, e, 2) IN
    IF c2.t # "Ready" THEN CopyEnd(c2)
    ELSE
    LET first == c2.buf[1]
        second == c2.buf[2]
        finished == (first \div 128) % 2 # 0
        masked == (second \div 128) % 2 # 0
        opcode == OpCodeFrom(first % 16)
        len == second % 128
    IN
    IF copy_masking(masked, server) # ""
    THEN [md |-> MdErr(copy_masking(masked, server), 0), h |-> c2.h]
    ELSE IF opcode = "Bad"
    THEN [md |-> MdErr("InvalidOpcode", first), h |-> c2.h]
    ELSE
    LET cl == IF len = 126 THEN copy(c2.h, e, 4)
              ELSE IF len = 127 THEN copy(c2.h, e, 10)
              ELSE c2
    IN
    IF cl.t # "Ready" THEN CopyEnd(cl)
    ELSE
    LET length == IF len = 126 THEN read_uint(cl.buf, 2, 2)
                  ELSE IF len = 127 THEN read_uint(cl.buf, 2, 8)
                  ELSE len
        idx == IF len = 126 THEN 4 ELSE IF len = 127 THEN 10 ELSE 2
    IN
    IF copy_overflow(length, max_size) THEN [md |-> MdErr("Overflow", 0), h |-> cl.h]
    ELSE IF server
         THEN LET cm == copy(cl.h, e, idx + 4) IN
              IF cm.t # "Ready" THEN CopyEnd(cm)
              ELSE [md |-> MdReady(idx + 4, finished, opcode, length,
                                   SubSeq(cm.buf, idx + 1, idx + 4)),
                    h |-> cm.h]
         ELSE [md |-> MdReady(idx, finished, opcode, length, NoMask), h |-> cl.h]

read_copy_md(pl, e, server, max_size) ==
    LET c2 == copy(pl, e, 2) IN
    IF c2.t # "Ready" THEN CopyEnd(c2)
    ELSE
    LET first == c2.buf[1]
        second == c2.buf[2]
        finished == (first \div 128) % 2 # 0
        masked == (second \div 128) % 2 # 0
        opcode == OpCodeFrom(first % 16)
        len == second % 128
    IN
    IF copy_masking(masked, server) # ""
    THEN [md |-> MdErr(copy_masking(masked, server), 0), h |-> c2.h]
    ELSE IF opcode = "Bad"
    THEN [md |-> MdErr("InvalidOpcode", first % 16), h |-> c2.h]
    ELSE
    LET cl == IF len = 126 THEN copy(c2.h, e, 4)
              ELSE IF len = 127 THEN copy(c2.h, e, 10)
              ELSE c2
    IN
    IF cl.t # "Ready" THEN CopyEnd(cl)
    ELSE
    LET length == IF len = 126 THEN read_uint(cl.buf, 2, 2)
                  ELSE IF len = 127 THEN read_uint(cl.buf, 2, 8)
                  ELSE len
        idx == IF len = 126 THEN 4 ELSE IF len = 127 THEN 10 ELSE 2
    IN
    IF copy_overflow(length, max_size) THEN [md |-> MdErr("Overflow", 0), h |-> cl.h]
    ELSE IF server
         THEN LET cm == copy(cl.h, e, idx + 4) IN
              IF cm.t # "Ready" THEN CopyEnd(cm)
              ELSE [md |-> MdReady(idx + 4, finished, opcode, length,
                                   SubSeq(cm.buf, idx + 1, idx + 4)),
                    h |-> cm.h]
         ELSE [md |-> MdReady(idx, finished, opcode, length, NoMask), h |-> cl.h]

(***************************************************************************)
(* Frame::parse: one call on the helper state pl.  Returns the outcome res, *)
(* the helper state h the call leaves behind, the header reader that       *)
(* decided the call (path) and whether pl.read_exact was called (exact).   *)
(***************************************************************************)
\* the control-frame policy with the limit one byte too high
control_policy_126(opcode, length) ==
    IF opcode \in {"Ping", "Pong"} /\ UGt(length, 126) THEN "InvalidLength"
    ELSE IF opcode = "Close" /\ UGt(length, 125) THEN "Default"
    ELSE ""

\* the control-frame policy with Close refused like Ping and Pong
control_policy_strict(opcode, length) ==
    IF opcode \in {"Ping", "Pong", "Close"} /\ UGt(length, 125) THEN "InvalidLength"
    ELSE ""

\* the control-frame policy of parse: "", "InvalidLength" or "Default"
control_policy(opcode, length) ==
    IF opcode \in {"Ping", "Pong"} /\ UGt(length, 125) THEN "InvalidLength"
    ELSE IF opcode = "Close" /\ UGt(length, 125) THEN "Default"
    ELSE ""

\* parse without its unmask step
unmask_skip(data, mask) == data

\* the unmask step of parse
unmask(data, mask) == IF mask # NoMask THEN apply_mask(data, mask) ELSE data

\* parse_body with the header dropped before the availability check
parse_body_drop_first(md, h, e) ==
    LET h0 == drop_payload(h, md.idx)
        cr == can_read(h0, e, md.length)
    IN
    IF cr.t = "None" THEN [res |-> ResNone, h |-> cr.h, exact |-> FALSE]
    ELSE IF cr.t = "NotReady" THEN [res |-> ResPending, h |-> cr.h, exact |-> FALSE]
    ELSE IF md.length = 0
    THEN [res |-> ResFrame(md.finished, md.opcode, <<>>), h |-> cr.h, exact |-> FALSE]
    ELSE
    LET rd == read_exact(cr.h, e, md.length) IN
    IF rd.t = "None" THEN [res |-> ResNone, h |-> rd.h, exact |-> TRUE]
    ELSE IF rd.t = "NotReady" THEN [res |-> ResPanic, h |-> rd.h, exact |-> TRUE]
    ELSE IF control_policy(md.opcode, md.length) = "InvalidLength"
    THEN [res |-> ResErr("InvalidLength", md.length), h |-> rd.h, exact |-> TRUE]
    ELSE IF control_policy(md.opcode, md.length) = "Default"
    THEN [res |-> FrameDefault, h |-> rd.h, exact |-> TRUE]
    ELSE [res |-> ResFrame(md.finished, md.opcode, unmask(rd.buf, md.mask)),
          h |-> rd.h, exact |-> TRUE]

\* parse_body asking can_read for one byte more than the frame has
parse_body_one_more(md, h, e) ==
    LET cr == can_read(h, e, md.idx + md.length + 1) IN
    IF cr.t = "None" THEN [res |-> ResNone, h |-> cr.h, exact |-> FALSE]
    ELSE IF cr.t = "NotReady" THEN [res |-> ResPending, h |-> cr.h, exact |-> FALSE]
    ELSE
    LET h1 == drop_payload(cr.h, md.idx) IN
    IF md.length = 0
    THEN [res |-> ResFrame(md.finished, md.opcode, <<>>), h |-> h1, exact |-> FALSE]
    ELSE
    LET rd == read_exact(h1, e, md.length) IN
    IF rd.t = "None" THEN [res |-> ResNone, h |-> rd.h, exact |-> TRUE]
    ELSE IF rd.t = "NotReady" THEN [res |-> ResPanic, h |-> rd.h, exact |-> TRUE]
    ELSE IF control_policy(md.opcode, md.length) = "InvalidLength"
    THEN [res |-> ResErr("InvalidLength", md.length), h |-> rd.h, exact |-> TRUE]
    ELSE IF control_policy(md.opcode, md.length) = "Default"
    THEN [res |-> FrameDefault, h |-> rd.h, exact |-> TRUE]
    ELSE [res |-> ResFrame(md.finished, md.opcode, unmask(rd.buf, md.mask)),
          h |-> rd.h, exact |-> TRUE]

\* parse_body dropping the two base header bytes only
parse_body_drop_two(md, h, e) ==
    LET cr == can_read(h, e, md.idx + md.length) IN
    IF cr.t = "None" THEN [res |-> ResNone, h |-> cr.h, exact |-> FALSE]
    ELSE IF cr.t = "NotReady" THEN [res |-> ResPending, h |-> cr.h, exact |-> FALSE]
    ELSE
    LET h1 == drop_payload(cr.h, 2) IN
    IF md.length = 0
    THEN [res |-> ResFrame(md.finished, md.opcode, <<>>), h |-> h1, exact |-> FALSE]
    ELSE
    LET rd == read_exact(h1, e, md.length) IN
    IF rd.t = "None" THEN [res |-> ResNone, h |-> rd.h, exact |-> TRUE]
    ELSE IF rd.t = "NotReady" THEN [res |-> ResPanic, h |-> rd.h, exact |-> TRUE]
    ELSE IF control_policy(md.opcode, md.length) = "InvalidLength"
    THEN [res |-> ResErr("InvalidLength", md.length), h |-> rd.h, exact |-> TRUE]
    ELSE IF control_policy(md.opcode, md.length) = "Default"
    THEN [res |-> FrameDefault, h |-> rd.h, exact |-> TRUE]
    ELSE [res |-> ResFrame(md.finished, md.opcode, unmask(rd.buf, md.mask)),
          h |-> rd.h, exact |-> TRUE]

\* parse_body without the shortcut for an empty payload
parse_body_read_zero(md, h, e) ==
    LET cr == can_read(h, e, md.idx + md.length) IN
    IF cr.t = "None" THEN [res |-> ResNone, h |-> cr.h, exact |-> FALSE]
    ELSE IF cr.t = "NotReady" THEN [res |-> ResPending, h |-> cr.h, exact |-> FALSE]
    ELSE
    LET h1 == drop_payload(cr.h, md.idx) IN
    LET rd == read_exact(h1, e, md.length) IN
    IF rd.t = "None" THEN [res |-> ResNone, h |-> rd.h, exact |-> TRUE]
    ELSE IF rd.t = "NotReady" THEN [res |-> ResPanic, h |-> rd.h, exact |-> TRUE]
    ELSE IF control_policy(md.opcode, md.length) = "InvalidLength"
    THEN [res |-> ResErr("InvalidLength", md.length), h |-> rd.h, exact |-> TRUE]
    ELSE IF control_policy(md.opcode, md.length) = "Default"
    THEN [res |-> FrameDefault, h |-> rd.h, exact |-> TRUE]
    ELSE [res |-> ResFrame(md.finished, md.opcode, unmask(rd.buf, md.mask)),
          h |-> rd.h, exact |-> TRUE]

\* parse_body reading every buffered byte as the payload
parse_body_read_all(md, h, e) ==
    LET cr == can_read(h, e, md.idx + md.length) IN
    IF cr.t = "None" THEN [res |-> ResNone, h |-> cr.h, exact |-> FALSE]
    ELSE IF cr.t = "NotReady" THEN [res |-> ResPending, h |-> cr.h, exact |-> FALSE]
    ELSE
    LET h1 == drop_payload(cr.h, md.idx) IN
    IF md.length = 0
    THEN [res |-> ResFrame(md.finished, md.opcode, <<>>), h |-> h1, exact |-> FALSE]
    ELSE
    LET rd == read_exact(h1, e, BufLen(h1)) IN
    IF rd.t = "None" THEN [res |-> ResNone, h |-> rd.h, exact |-> TRUE]
    ELSE IF rd.t = "NotReady" THEN [res |-> ResPanic, h |-> rd.h, exact |-> TRUE]
    ELSE IF control_policy(md.opcode, md.length) = "InvalidLength"
    THEN [res |-> ResErr("InvalidLength", md.length), h |-> rd.h, exact |-> TRUE]
    ELSE IF control_policy(md.opcode, md.length) = "Default"
    THEN [res |-> FrameDefault, h |-> rd.h, exact |-> TRUE]
    ELSE [res |-> ResFrame(md.finished, md.opcode, unmask(rd.buf, md.mask)),
          h |-> rd.h, exact |-> TRUE]

\* parse from the decoded header on: availability check, drop, read, policy
parse_body(md, h, e) ==
    LET cr == can_read(h, e, md.idx + md.length) IN
    IF cr.t = "None" THEN [res |-> ResNone, h |-> cr.h, exact |-> FALSE]
    ELSE IF cr.t = "NotReady" THEN [res |-> ResPending, h |-> cr.h, exact |-> FALSE]
    ELSE
    LET h1 == drop_payload(cr.h, md.idx) IN
    IF md.length = 0
    THEN [res |-> ResFrame(md.finished, md.opcode, <<>>), h |-> h1, exact |-> FALSE]
    ELSE
    LET rd == read_exact(h1, e, md.length) IN
    IF rd.t = "None" THEN [res |-> ResNone, h |-> rd.h, exact |-> TRUE]
    ELSE IF rd.t = "NotReady" THEN [res |-> ResPanic, h |-> rd.h, exact |-> TRUE]
    ELSE IF control_policy(md.opcode, md.length) = "InvalidLength"
    THEN [res |-> ResErr("InvalidLength", md.length), h |-> rd.h, exact |-> TRUE]
    ELSE IF control_policy(md.opcode, md.length) = "Default"
    THEN [res |-> FrameDefault, h |-> rd.h, exact |-> TRUE]
    ELSE [res |-> ResFrame(md.finished, md.opcode, unmask(rd.buf, md.mask)),
          h |-> rd.h, exact |-> TRUE]

parse(pl, e, server, max_size) ==
    LET gc == get_chunk(pl, e) IN
    IF gc.t = "NotReady" THEN [res |-> ResPending, h |-> gc.h, path |-> "none", exact |-> FALSE]
    ELSE IF gc.t = "None" THEN [res |-> ResNone, h |-> gc.h, path |-> "none", exact |-> FALSE]
    ELSE
    LET fast == read_chunk_md(gc.chunk, server, max_size) IN
    IF fast.t = "Err"
    THEN [res |-> ResErr(fast.e, fast.v), h |-> gc.h, path |-> "fast", exact |-> FALSE]
    ELSE IF fast.t = "Ready"
    THEN LET b == parse_body(fast, gc.h, e)
         IN [res |-> b.res, h |-> b.h, path |-> "fast", exact |-> b.exact]
    ELSE
    LET slow == read_copy_md(gc.h, e, server, max_size) IN
    IF slow.md.t = "Err"
    THEN [res |-> ResErr(slow.md.e, slow.md.v), h |-> slow.h, path |-> "slow", exact |-> FALSE]
    ELSE IF slow.md.t = "NotReady"
    THEN [res |-> ResPending, h |-> slow.h, path |-> "slow", exact |-> FALSE]
    ELSE IF slow.md.t = "None"
    THEN [res |-> ResNone, h |-> slow.h, path |-> "slow", exact |-> FALSE]
    ELSE LET b == parse_body(slow.md, slow.h, e)
         IN [res |-> b.res, h |-> b.h, path |-> "slow", exact |-> b.exact]

(***************************************************************************)
(* Frame::message: the wire bytes of one frame.  mask is the value         *)
(* rand::random::<u32>() returned, as its four bytes in memory order.      *)
(***************************************************************************)
\* message with the inline length class one too wide (payload_len <= 126)
message_inline126(payload, code, finished, genmask, mask) ==
    LET one == IF finished THEN 128 + OpCodeToU8(code) ELSE OpCodeToU8(code)
        payload_len == Len(payload)
        two == IF genmask THEN 128 ELSE 0
        buf == IF payload_len <= 126 THEN <<one, two + payload_len>>
               ELSE IF payload_len <= 65535
                    THEN <<one, two + 126>> \o write_uint(payload_len, 2)
                    ELSE <<one, two + 127>> \o write_uint(payload_len, 8)
    IN IF genmask THEN buf \o mask \o apply_mask(payload, mask)
       ELSE buf \o payload

\* message with the 16-bit length class one too wide (payload_len <= 65536)
message_u16_65536(payload, code, finished, genmask, mask) ==
    LET one == IF finished THEN 128 + OpCodeToU8(code) ELSE OpCodeToU8(code)
        payload_len == Len(payload)
        two == IF genmask THEN 128 ELSE 0
        buf == IF payload_len < 126 THEN <<one, two + payload_len>>
               ELSE IF payload_len <= 65536
                    THEN <<one, two + 126>> \o write_uint(payload_len, 2)
                    ELSE <<one, two + 127>> \o write_uint(payload_len, 8)
    IN IF genmask THEN buf \o mask \o apply_mask(payload, mask)
       ELSE buf \o payload

message(payload, code, finished, genmask, mask) ==
    LET one == IF finished THEN 128 + OpCodeToU8(code) ELSE OpCodeToU8(code)
        payload_len == Len(payload)
        two == IF genmask THEN 128 ELSE 0
        buf == IF payload_len < 126 THEN <<one, two + payload_len>>
               ELSE IF payload_len <= 65535
                    THEN <<one, two + 126>> \o write_uint(payload_len, 2)
                    ELSE <<one, two + 127>> \o write_uint(payload_len, 8)
    IN IF genmask THEN buf \o mask \o apply_mask(payload, mask)
       ELSE buf \o payload

(***************************************************************************)
(* Frame::close: the wire bytes of a Close frame for a close code and a    *)
(* reason.                                                                 *)
(***************************************************************************)
\* the payload of close without the Empty case
close_payload_always(code, reason) == write_uint(CloseCodeToU16(code), 2) \o reason

\* the payload close hands to message
close_payload(code, reason) ==
    LET raw == write_uint(CloseCodeToU16(code), 2)
    IN IF code = "Empty" THEN <<>> ELSE raw \o reason

close(code, reason, genmask, mask) ==
    message(close_payload(code, reason), "Close", TRUE, genmask, mask)

(***************************************************************************)
(* The peer and the transport.  A sent frame is a record of what the peer  *)
(* put on the wire: its fields and its bytes.  RawBytes writes any header  *)
(* (any nibble, any of the three length forms, masked or not), as the      *)
(* tests write theirs by hand; Encoded is a frame written by message.      *)
(***************************************************************************)
HeaderLen(masked, form) == 2 + form + (IF masked THEN 4 ELSE 0)

RawBytes(finished, nibble, masked, form, key, payload) ==
    <<(IF finished THEN 128 ELSE 0) + nibble,
      (IF masked THEN 128 ELSE 0)
         + (IF form = 0 THEN Len(payload) ELSE IF form = 2 THEN 126 ELSE 127)>>
    \o write_uint(Len(payload), form)
    \o (IF masked THEN key \o apply_mask(payload, key) ELSE payload)

RawFrame(finished, nibble, masked, form, key, payload) ==
    [finished |-> finished, nibble |-> nibble, code |-> OpCodeFrom(nibble),
     masked |-> masked, form |-> form, length |-> Len(payload), payload |-> payload,
     key |-> IF masked THEN key ELSE NoMask,
     bytes |-> RawBytes(finished, nibble, masked, form, key, payload)]

\* a frame whose 64-bit length field declares 2^64 - back bytes, with the
\* bytes tail sent behind its header
Declared(finished, nibble, masked, back, key, tail) ==
    [finished |-> finished, nibble |-> nibble, code |-> OpCodeFrom(nibble),
     masked |-> masked, form |-> 8, length |-> 0 - back, payload |-> tail,
     key |-> IF masked THEN key ELSE NoMask,
     bytes |-> <<(IF finished THEN 128 ELSE 0) + nibble,
                 (IF masked THEN 128 ELSE 0) + 127,
                 255, 255, 255, 255, 255, 255, 255, 256 - back>>
               \o (IF masked THEN key ELSE <<>>) \o tail]

MinimalForm(n) == IF n < 126 THEN 0 ELSE IF n <= 65535 THEN 2 ELSE 8

Encoded(payload, code, finished, genmask, mask) ==
    [finished |-> finished, nibble |-> OpCodeToU8(code), code |-> code,
     masked |-> genmask, form |-> MinimalForm(Len(payload)),
     length |-> Len(payload), payload |-> payload,
     key |-> IF genmask THEN mask ELSE NoMask,
     bytes |-> message(payload, code, finished, genmask, mask)]

\* a frame written by close, with the arguments close was given
Closed(code, reason, genmask, mask) ==
    [finished |-> TRUE, nibble |-> OpCodeToU8("Close"), code |-> "Close",
     masked |-> genmask, form |-> MinimalForm(Len(close_payload(code, reason))),
     length |-> Len(close_payload(code, reason)),
     payload |-> close_payload(code, reason),
     key |-> IF genmask THEN mask ELSE NoMask,
     bytes |-> close(code, reason, genmask, mask),
     closecode |-> code, reason |-> reason]

RECURSIVE AllBytes(_)
AllBytes(frames) ==
    IF frames = <<>> THEN <<>> ELSE Head(frames).bytes \o AllBytes(Tail(frames))

\* the payload of n bytes: '1' and 0x81 (which reads as a header byte) in turn
Payload(n) == [i \in 1..n |-> IF i % 2 = 1 THEN 49 ELSE 129]

LongPayload == [i \in 1..LongLen |-> 48 + (i % 3)]

\* the mask key of test_parse_frame_mask, "0001"
Key == <<48, 48, 48, 49>>

Ceilings == {SmallMax, BigMax}

ResultInit ==
    [t |-> "Init", e |-> "", v |-> 0, finished |-> FALSE, opcode |-> "Bad",
     payload |-> <<>>, path |-> "none", server |-> FALSE, max_size |-> 0,
     at |-> 0, had |-> 0, used |-> 0, open |-> TRUE, exact |-> FALSE]

\* the state after PayloadHelper::new over a stream that will carry frames
Start(frames, budget) ==
    /\ sent = frames
    /\ all = AllBytes(frames)
    /\ wire = AllBytes(frames)
    /\ items = <<>>
    /\ ready = <<>>
    /\ eof = FALSE
    /\ cuts = budget
    /\ result = ResultInit
    /\ out = <<>>

\* bytes of the source: buffered in the helper or ready in the stream
Buffered == Flat(items) \o Flat(ready)

\* bytes removed from the source so far
Consumed == Len(all) - Len(wire) - Len(Buffered)

\* the stream yields the next k bytes of the wire as one chunk
Arrive(k) ==
    /\ ~eof
    /\ cuts > 0
    /\ k >= 1
    /\ k <= Len(wire)
    /\ cuts = 1 => k = Len(wire)
    /\ ready' = Append(ready, Take(wire, k))
    /\ wire' = Drop(wire, k)
    /\ cuts' = cuts - 1
    /\ UNCHANGED <<items, eof, sent, all, result, out>>

\* the stream ends; what is left on the wire never arrives
Eof ==
    /\ ~eof
    /\ eof' = TRUE
    /\ UNCHANGED <<items, ready, wire, cuts, sent, all, result, out>>

\* one call Frame::parse(&mut pl, server, max_size).  result keeps the outcome
\* with what the caller can observe of the call: its arguments, the bytes
\* consumed before it (at), the bytes the source held (had), the bytes it
\* removed (used), whether the stream was still open and whether the call
\* reached pl.read_exact (exact).
Parse(server, max_size) ==
    /\ result.t # "Panic"
    /\ \E r \in {parse([items |-> items, ready |-> ready], eof, server, max_size)} :
       LET after == Len(Flat(r.h.items)) + Len(Flat(r.h.ready))
       IN /\ items' = r.h.items
          /\ ready' = r.h.ready
          /\ result' = [t |-> r.res.t, e |-> r.res.e, v |-> r.res.v,
                        finished |-> r.res.finished, opcode |-> r.res.opcode,
                        payload |-> r.res.payload, path |-> r.path,
                        server |-> server, max_size |-> max_size,
                        at |-> Consumed, had |-> Len(Buffered),
                        used |-> Len(Buffered) - after, open |-> ~eof,
                        exact |-> r.exact]
          /\ out' = IF r.res.t = "Frame"
                    THEN Append(out, [finished |-> r.res.finished,
                                      opcode |-> r.res.opcode,
                                      payload |-> r.res.payload])
                    ELSE out
    /\ UNCHANGED <<wire, eof, cuts, sent, all>>

Next ==
    \/ \E k \in (1..MaxCut) \cup {Len(wire)} : Arrive(k)
    \/ Eof
    \/ \E server \in BOOLEAN, max_size \in Ceilings : Parse(server, max_size)

(***************************************************************************)
(* Spec: one frame with any of the three length forms, masked or not, a    *)
(* valid or a reserved opcode, delivered in up to MaxChunks chunks.        *)
(***************************************************************************)
\* (finished, nibble): Text, final Binary, final Ping, reserved 3
Firsts == {<<FALSE, 1>>, <<TRUE, 2>>, <<TRUE, 9>>, <<FALSE, 3>>}

Forms == {0, 2, 8}

OneFrames ==
    {RawFrame(fn[1], fn[2], m, form, Key, Payload(n)) :
        fn \in Firsts, m \in BOOLEAN, form \in Forms, n \in 0..MaxLen}

Init == \E f \in OneFrames : Start(<<f>>, MaxChunks)

Spec == Init /\ [][Next]_vars

(***************************************************************************)
(* SpecStream: MaxFrames well-formed frames of one direction back to back, *)
(* each a Text frame with a payload or an empty final Ping.                *)
(***************************************************************************)
StreamFrames(m) ==
    {RawFrame(FALSE, 1, m, 0, Key, Payload(MaxLen)),
     RawFrame(TRUE, 9, m, 0, Key, Payload(0))}

RECURSIVE SeqsOf(_, _)
SeqsOf(S, n) ==
    IF n = 0 THEN {<<>>}
    ELSE {Append(q, x) : q \in SeqsOf(S, n - 1), x \in S}

InitStream ==
    \E m \in BOOLEAN : \E frames \in SeqsOf(StreamFrames(m), MaxFrames) :
        Start(frames, MaxChunks)

SpecStream == InitStream /\ [][Next]_vars

(***************************************************************************)
(* SpecHdr: one frame with every opcode nibble (final when the nibble is    *)
(* odd), in up to MaxChunks chunks.                                        *)
(***************************************************************************)
HdrFrames ==
    {RawFrame(n % 2 = 1, n, m, form, Key, Payload(MaxLen)) :
        n \in 0..15, m \in BOOLEAN, form \in Forms}

InitHdr == \E f \in HdrFrames : Start(<<f>>, MaxChunks)

SpecHdr == InitHdr /\ [][Next]_vars

(***************************************************************************)
(* SpecLong: one frame whose payload is LongLen bytes, past the limit of a *)
(* control frame, in the 16-bit or the 64-bit length form.                 *)
(***************************************************************************)
LongFrames ==
    {RawFrame(f, n, m, form, Key, LongPayload) :
        f \in BOOLEAN, n \in {1, 8, 9, 10}, m \in BOOLEAN, form \in {2, 8}}

InitLong == \E f \in LongFrames : Start(<<f>>, FewChunks)

SpecLong == InitLong /\ [][Next]_vars

(***************************************************************************)
(* SpecRT: one frame written by Frame::message, in at most FewChunks chunks.*)
(***************************************************************************)
MessageFrames ==
    {Encoded(p, code, f, g, Key) :
        p \in {Payload(n) : n \in 0..MaxLen} \cup {LongPayload},
        code \in OpCodes, f \in BOOLEAN, g \in BOOLEAN}

InitRT == \E f \in MessageFrames : Start(<<f>>, FewChunks)

SpecRT == InitRT /\ [][Next]_vars

(***************************************************************************)
(* SpecEnc: one frame written by Frame::message with a payload at a        *)
(* boundary of the three length classes, decoded under a max_size that     *)
(* admits the longest of them.                                             *)
(***************************************************************************)
\* the largest payload length of the 16-bit class (payload_len <= 65_535)
U16Max == 65535

\* the frames message writes for payloads of the lengths lens
EncFrames(lens, codes) ==
    {Encoded(Payload(n), code, f, g, Key) :
        n \in lens, code \in codes, f \in BOOLEAN, g \in BOOLEAN}

\* every opcode at the boundaries of the inline class, Binary and Ping at
\* the boundaries of the 16-bit class
InitEnc ==
    \E f \in EncFrames({0, 1, 125, 126}, OpCodes)
              \cup EncFrames({U16Max, U16Max + 1}, {"Binary", "Ping"}) :
        Start(<<f>>, FewChunks)

\* the frame arrives whole or behind a first chunk of HeadCut bytes
NextEnc ==
    \/ \E k \in {HeadCut, Len(wire)} : Arrive(k)
    \/ Eof
    \/ \E server \in BOOLEAN : Parse(server, U16Max + 1)

SpecEnc == InitEnc /\ [][NextEnc]_vars

(***************************************************************************)
(* SpecMask: one frame written by Frame::message with genmask = true, the  *)
(* value rand::random::<u32>() returned drawn from MaskKeys.               *)
(***************************************************************************)
\* keys: no bit set, every bit set, the key of the tests, four unlike bytes
MaskKeys == {<<0, 0, 0, 0>>, <<255, 255, 255, 255>>, Key, <<1, 2, 4, 128>>}

MaskPayload == [i \in 1..MaskLen |-> (53 * i) % 256]

\* a Binary frame that is not final or a final Ping
MaskFrames ==
    {Encoded(p, cf[1], cf[2], TRUE, key) :
        p \in {<<>>, MaskPayload, LongPayload},
        cf \in {<<"Binary", FALSE>>, <<"Ping", TRUE>>}, key \in MaskKeys}

InitMask == \E f \in MaskFrames : Start(<<f>>, FewChunks)

SpecMask == InitMask /\ [][Next]_vars

(***************************************************************************)
(* SpecClose: one frame written by Frame::close.                           *)
(***************************************************************************)
\* no reason, the reason "data" of test_close_frame, a reason of LongLen bytes
Reasons == {<<>>, <<100, 97, 116, 97>>, LongPayload}

CloseFrames ==
    {Closed(code, reason, g, Key) :
        code \in CloseCodes, reason \in Reasons, g \in BOOLEAN}

InitClose == \E f \in CloseFrames : Start(<<f>>, FewChunks)

SpecClose == InitClose /\ [][Next]_vars

(***************************************************************************)
(* SpecWide: one frame whose 64-bit length field is within a header length  *)
(* of 2^64, or an ordinary frame in the 64-bit form, decoded under the      *)
(* ceiling of the tests or under max_size = usize::max_value().            *)
(***************************************************************************)
\* 2^64 - back for the backs around the header lengths 10 and 14
Backs == {1, 10, 11, 14, 15}

WideFrames ==
    {Declared(n = 9, n, m, back, Key, tail) :
        n \in {2, 9}, m \in BOOLEAN, back \in Backs,
        tail \in {<<>>, Payload(MaxLen)}}
    \cup {RawFrame(FALSE, 1, m, 8, Key, Payload(MaxLen)) : m \in BOOLEAN}

InitWide == \E f \in WideFrames : Start(<<f>>, FewChunks)

NextWide ==
    \/ \E k \in (1..MaxCut) \cup {Len(wire)} : Arrive(k)
    \/ Eof
    \/ \E server \in BOOLEAN, max_size \in {BigMax, UsizeMax} :
          Parse(server, max_size)

SpecWide == InitWide /\ [][NextWide]_vars

(***************************************************************************)
(* SpecPrec: one frame of LongLen bytes, past the control-frame limit and   *)
(* past the small ceiling, with a valid or a reserved opcode, masked or    *)
(* not: a frame that can break several rules of a call at once.            *)
(***************************************************************************)
\* Binary, reserved 3, Close, Ping
PrecFrames ==
    {RawFrame(TRUE, n, m, form, Key, LongPayload) :
        n \in {2, 3, 8, 9}, m \in BOOLEAN, form \in {2, 8}}

InitPrec == \E f \in PrecFrames : Start(<<f>>, FewChunks)

SpecPrec == InitPrec /\ [][Next]_vars

(***************************************************************************)
(* SpecPre: one frame in any of the three length forms, masked or not, in  *)
(* at most FewChunks chunks, so that calls are made on many prefixes of it.*)
(***************************************************************************)
\* Text, final Ping, reserved 3
PreFrames ==
    {RawFrame(fn[1], fn[2], m, form, Key, Payload(MaxLen)) :
        fn \in {<<FALSE, 1>>, <<TRUE, 9>>, <<FALSE, 3>>},
        m \in BOOLEAN, form \in Forms}

InitPre == \E f \in PreFrames : Start(<<f>>, FewChunks)

SpecPre == InitPre /\ [][Next]_vars

(***************************************************************************)
(* What the claims speak of: the frame at the front of the source when the *)
(* last parse call was made.                                               *)
(***************************************************************************)
\* offset of the i-th sent frame in the byte stream
Off(i) == Len(AllBytes(Take(sent, i - 1)))

Called == result.t # "Init"

\* the last call started on a frame boundary
HasFront == \E i \in 1..Len(sent) : Off(i) = result.at

Front == sent[CHOOSE i \in 1..Len(sent) : Off(i) = result.at]

\* every byte of the front frame was in the source when the call was made
Whole == result.had >= Len(Front.bytes)

\* the role flag of the call matches the masking of the front frame
RoleOk == result.server = Front.masked

ControlCodes == {"Close", "Ping", "Pong"}

HeaderErrors == {"UnmaskedFrame", "MaskedFrame", "InvalidOpcode", "Overflow"}

(***************************************************************************)
(* C1 round trip of message and parse, genmask = false, server = false.    *)
(***************************************************************************)
\* the bytes of message(.., genmask = false) were handed whole to
\* parse(server = false, max_size >= payload length)
C1_Handed ==
    /\ Called /\ HasFront
    /\ ~Front.masked /\ ~result.server
    /\ result.max_size >= Front.length
    /\ Whole

C1_Same ==
    /\ result.t = "Frame"
    /\ result.finished = Front.finished
    /\ result.opcode = Front.code
    /\ result.payload = Front.payload

\* C1 as stated: for any payload, any opcode and any finished flag the bytes
\* of message(genmask = false) decode under server = false to a Frame with
\* the same finished flag, opcode and payload.
C1_RoundTripAny == C1_Handed => C1_Same

\* C1 amended: the round trip holds for Continuation, Text and Binary frames
\* of any payload and for Close, Ping and Pong frames whose payload is at
\* most 125 bytes.
C1_RoundTrip ==
    (C1_Handed /\ (Front.code \in ControlCodes => Front.length <= 125)) => C1_Same

\* a Text frame with a payload of LongLen bytes (16-bit length form) made the
\* round trip
C1_Witness ==
    /\ C1_Handed /\ C1_Same
    /\ Front.code = "Text" /\ Front.length = LongLen /\ Front.form = 2

(***************************************************************************)
(* C2 fragmented input decodes as contiguous input does.                   *)
(***************************************************************************)
\* the outcome of the last call
Outcome ==
    Res(result.t, result.e, result.v, result.finished, result.opcode, result.payload)

\* the outcome of the same call when the front frame arrives as one chunk
OneChunk ==
    parse([items |-> <<>>, ready |-> <<Front.bytes>>], FALSE,
          result.server, result.max_size).res

\* C2: however the bytes of a frame are split into chunks, a call that
\* returns a Frame or a protocol error, and every call made once all the
\* bytes of the frame have been delivered, returns what parse returns for the
\* same bytes in one contiguous chunk; and whenever the bytes in the source
\* hold a complete header, read_copy_md over the chunks returns the header
\* tuple or the error that read_chunk_md returns over the bytes in one piece.
C2_Fragmented ==
    /\ (Called /\ HasFront /\ (Whole \/ result.t \in {"Frame", "Err"}))
          => Outcome = OneChunk
    /\ \A server \in BOOLEAN, max_size \in Ceilings :
          LET fast == read_chunk_md(Buffered, server, max_size)
              slow == read_copy_md([items |-> items, ready |-> ready], eof,
                                   server, max_size)
          IN (Consumed = 0 /\ fast.t # "NotReady") => slow.md = fast

\* a masked frame with a 14-byte header and a payload, delivered in three
\* chunks, was decoded through read_copy_md
C2_Witness ==
    /\ Called /\ HasFront /\ Whole
    /\ result.t = "Frame" /\ result.path = "slow"
    /\ cuts = 0 /\ MaxChunks >= 3
    /\ Front.masked /\ Front.form = 8 /\ Front.length > 0
    /\ result.payload = Front.payload

(***************************************************************************)
(* C3 role enforcement.                                                    *)
(***************************************************************************)
\* C3: once the first two header bytes are in the source, a call with
\* server = false on a masked frame fails with MaskedFrame and a call with
\* server = true on an unmasked frame fails with UnmaskedFrame, whatever the
\* opcode nibble, the declared length and the chunking.
C3_Role ==
    (Called /\ HasFront /\ result.had >= 2) =>
        /\ (~result.server /\ Front.masked) => Outcome = ResErr("MaskedFrame", 0)
        /\ (result.server /\ ~Front.masked) => Outcome = ResErr("UnmaskedFrame", 0)

\* a masked frame with the reserved nibble 15 and a 64-bit length, its first
\* byte alone in the first chunk, was refused by a client through
\* read_copy_md before its header was complete
C3_Witness ==
    /\ Called /\ HasFront /\ result.had >= 2 /\ ~Whole
    /\ ~result.server /\ Front.masked
    /\ Front.nibble = 15 /\ Front.form = 8
    /\ result.path = "slow"
    /\ Outcome = ResErr("MaskedFrame", 0)

(***************************************************************************)
(* C4 Overflow.                                                            *)
(***************************************************************************)
\* the two base bytes and the extended length field were in the source
LengthBuffered == result.had >= 2 + Front.form

\* C4: for a frame with correct masking and a valid opcode, parse returns
\* Overflow only if the declared length is greater than max_size, and it does
\* return Overflow, with no byte consumed, as soon as the length field is in
\* the source, whether or not the mask key and the payload ever arrive.
C4_Overflow ==
    (Called /\ HasFront /\ RoleOk /\ Front.code # "Bad") =>
        /\ Outcome = ResErr("Overflow", 0)
             => (Front.length > result.max_size /\ result.used = 0)
        /\ (LengthBuffered /\ Front.length > result.max_size)
             => Outcome = ResErr("Overflow", 0)
        /\ Front.length = result.max_size => Outcome # ResErr("Overflow", 0)

\* a masked frame declaring one byte in the 16-bit form was refused under
\* max_size = 0 when only its four length bytes had arrived and the stream
\* had ended before the mask key
C4_Witness ==
    /\ Called /\ HasFront /\ RoleOk
    /\ Front.masked /\ Front.form = 2
    /\ result.had = 4 /\ ~result.open
    /\ Front.length > result.max_size
    /\ Outcome = ResErr("Overflow", 0) /\ result.used = 0

(***************************************************************************)
(* C5, C6 control frames longer than 125 bytes.                            *)
(***************************************************************************)
\* the header of the front frame passes the header checks of the call and
\* the whole frame was in the source
Decodable ==
    /\ Called /\ HasFront /\ Whole
    /\ RoleOk /\ Front.code # "Bad"
    /\ Front.length <= result.max_size

\* C5: a Ping or Pong frame whose declared payload length is greater than 125
\* and whose header is accepted (role and max_size) fails, once the frame is
\* complete, with InvalidLength carrying the declared length.
C5_PingPong ==
    (Decodable /\ Front.code \in {"Ping", "Pong"} /\ Front.length > 125)
        => Outcome = ResErr("InvalidLength", Front.length)

\* a masked Pong of LongLen bytes in the 64-bit form, split in its header,
\* was refused with InvalidLength
C5_Witness ==
    /\ Decodable /\ Front.code = "Pong" /\ Front.length = LongLen
    /\ Front.masked /\ Front.form = 8 /\ result.path = "slow"
    /\ Outcome = ResErr("InvalidLength", LongLen)

\* C6: a Close frame whose declared payload length is greater than 125 never
\* fails with InvalidLength, and once its header is accepted and the frame is
\* complete the call returns Frame::default(): finished, Close, empty
\* payload, whatever the fin bit and the payload received.
C6_Close ==
    (Called /\ HasFront /\ Front.code = "Close" /\ Front.length > 125) =>
        /\ result.e # "InvalidLength"
        /\ Decodable => Outcome = ResFrame(TRUE, "Close", <<>>)

\* a non-final masked Close of LongLen bytes came back as the default frame
C6_Witness ==
    /\ Decodable /\ Front.code = "Close" /\ Front.length = LongLen
    /\ ~Front.finished /\ Front.masked
    /\ result.t = "Frame" /\ result.finished /\ result.payload = <<>>

(***************************************************************************)
(* C7 nothing is consumed before the frame is complete.                    *)
(***************************************************************************)
\* C7: a call that returns Pending or a header-level error (UnmaskedFrame,
\* MaskedFrame, InvalidOpcode, Overflow) removed no byte, and the bytes the
\* source held at the call are still at its front, so a later call reads the
\* same frame from its first byte.
C7_NoConsumption ==
    (Called /\ (result.t = "Pending"
                \/ (result.t = "Err" /\ result.e \in HeaderErrors))) =>
        /\ result.used = 0
        /\ Consumed = result.at
        /\ Len(Buffered) >= result.had
        /\ Take(Buffered, result.had)
             = SubSeq(all, result.at + 1, result.at + result.had)

\* a call returned Pending with the whole 8-byte header of a masked frame
\* decoded through read_copy_md and the payload still missing
C7_Witness ==
    /\ Called /\ HasFront /\ ~Whole
    /\ result.t = "Pending" /\ result.path = "slow"
    /\ RoleOk /\ Front.masked /\ Front.form = 2
    /\ result.had = HeaderLen(TRUE, 2)
    /\ result.used = 0 /\ Take(Buffered, result.had) = Take(all, result.had)

(***************************************************************************)
(* C8 clean end of stream.                                                 *)
(***************************************************************************)
\* the front frame breaks no rule of the call: role, opcode, max_size and
\* control-frame limit
ValidFront ==
    /\ RoleOk /\ Front.code # "Bad"
    /\ Front.length <= result.max_size
    /\ Front.code \in ControlCodes => Front.length <= 125

\* C8: when the stream has ended and the source holds only a proper prefix
\* of an otherwise valid frame, parse returns Ready(None): no protocol error
\* and no Frame.
C8_CleanEnd ==
    (Called /\ HasFront /\ ~result.open /\ ~Whole /\ ValidFront)
        => Outcome = ResNone

\* the stream ended inside the 64-bit length field of a frame whose first
\* byte came alone: read_copy_md returned None
C8_Witness ==
    /\ Called /\ HasFront /\ ~result.open /\ ~Whole /\ ValidFront
    /\ Front.form = 8 /\ result.had > 2 /\ result.had < 10
    /\ result.path = "slow"
    /\ Outcome = ResNone

(***************************************************************************)
(* C9 insufficient bytes are never an error.                               *)
(***************************************************************************)
\* C9: while the stream is open and the source holds only a proper prefix
\* of a frame that breaks no rule, every call returns Pending; once the whole
\* frame is in the source no call returns Pending: it returns a Frame or an
\* error, and for a frame that breaks no rule the very next call returns the
\* frame, so a caller that resupplies and retries obtains it.
C9_NeverForWant ==
    /\ (Called /\ HasFront /\ result.open /\ ~Whole /\ ValidFront)
          => Outcome = ResPending
    /\ (Called /\ HasFront /\ Whole) => result.t \in {"Frame", "Err"}
    /\ (Called /\ HasFront /\ Whole /\ ValidFront)
          => Outcome = ResFrame(Front.finished, Front.code, Front.payload)

\* a call returned Pending on the first byte of a frame, alone in the source,
\* and the source still holds that byte
C9_Witness ==
    /\ Called /\ HasFront /\ result.open /\ ValidFront
    /\ result.had = 1 /\ Outcome = ResPending
    /\ Buffered = Take(all, 1)

(***************************************************************************)
(* C10 frames are decoded in arrival order.                                *)
(***************************************************************************)
\* the i-th sent frame as parse returns it
AsFrame(i) ==
    [finished |-> sent[i].finished, opcode |-> sent[i].code,
     payload |-> sent[i].payload]

\* C10: the frames returned so far are the first frames sent, in the order
\* sent, and the bytes removed from the source are exactly the bytes of those
\* frames: what is left starts with the first byte of the next frame.
C10_InOrder ==
    /\ Len(out) <= Len(sent)
    /\ \A i \in 1..Len(out) : out[i] = AsFrame(i)
    /\ Consumed = Off(Len(out) + 1)
    /\ Buffered \o wire = Drop(all, Off(Len(out) + 1))

\* a masked empty Ping and the masked Text frame behind it were returned in
\* order, the header of the last frame read across a chunk boundary
C10_Witness ==
    /\ Len(sent) >= 2 /\ Len(out) = Len(sent)
    /\ sent[1] # sent[2] /\ sent[1].masked
    /\ sent[1].length = 0 /\ sent[Len(sent)].length > 0
    /\ out[1] = AsFrame(1) /\ out[2] = AsFrame(2)
    /\ result.t = "Frame" /\ result.path = "slow"
    /\ result.at = Off(Len(sent))
    /\ Consumed = Len(all)

(***************************************************************************)
(* C11 the length class message chooses.                                   *)
(***************************************************************************)
\* the bytes b of a frame written by message for a payload of n bytes carry
\* the opcode and the fin bit in byte 0 and the minimal length class
EncodedAs(F) ==
    LET b == F.bytes
        n == Len(F.payload)
        marker == b[2] % 128
    IN /\ b[1] = OpCodeToU8(F.code) + (IF F.finished THEN 128 ELSE 0)
       /\ b[2] \div 128 = (IF F.masked THEN 1 ELSE 0)
       /\ n < 126 => (marker = n /\ Len(b) = 2 + (IF F.masked THEN 4 ELSE 0) + n)
       /\ (126 <= n /\ n <= 65535) =>
            /\ marker = 126
            /\ SubSeq(b, 3, 4) = <<n \div 256, n % 256>>
            /\ Len(b) = 4 + (IF F.masked THEN 4 ELSE 0) + n
       /\ n > 65535 =>
            /\ marker = 127
            /\ SubSeq(b, 3, 10)
                 = <<0, 0, 0, 0, n \div 16777216, (n \div 65536) % 256,
                     (n \div 256) % 256, n % 256>>
            /\ Len(b) = 10 + (IF F.masked THEN 4 ELSE 0) + n

\* C11: message writes byte 0 as the opcode nibble, with 0x80 when finished,
\* and the payload length in the minimal class: inline below 126, marker 126
\* and a big-endian 16-bit length up to 65535, marker 127 and a big-endian
\* 64-bit length above; the header decodes to the original length, and a
\* call of parse that holds the whole frame and accepts it returns a payload
\* of exactly that length.
C11_LengthClass ==
    /\ \A i \in 1..Len(sent) :
          /\ EncodedAs(sent[i])
          /\ \E md \in {read_chunk_md(sent[i].bytes, sent[i].masked,
                                        Len(sent[i].payload))} :
                md.t = "Ready" /\ md.length = Len(sent[i].payload)
    /\ (Decodable /\ (Front.code \in ControlCodes => Front.length <= 125))
          => (result.t = "Frame" /\ Len(result.payload) = Len(Front.payload))

\* a payload of 126 bytes, the first of the 16-bit class, was written with
\* marker 126 and the length 0x007E, and decoded to a payload of 126 bytes
\* from a header split across chunks
C11_Witness ==
    /\ Decodable /\ Len(Front.payload) = 126
    /\ SubSeq(Front.bytes, 2, 4) = <<126, 0, 126>>
    /\ result.path = "slow"
    /\ result.t = "Frame" /\ Len(result.payload) = 126

(***************************************************************************)
(* C12 round trip of message and parse, genmask = true, server = true.     *)
(***************************************************************************)
\* the bytes of a frame written with genmask = true: the mask bit, the key
\* right after the length field, then payload byte i XOR key byte i mod 4
MaskedAs(F) ==
    LET b == F.bytes
        at == 2 + F.form
    IN /\ b[2] >= 128
       /\ SubSeq(b, at + 1, at + 4) = F.key
       /\ Len(b) = at + 4 + Len(F.payload)
       /\ \A i \in 1..Len(F.payload) :
             b[at + 4 + i] = Xor8(F.payload[i], F.key[((i - 1) % 4) + 1])

\* the bytes of message(.., genmask = true) were handed whole to
\* parse(server = true, max_size >= payload length)
C12_Handed ==
    /\ Called /\ HasFront
    /\ Front.masked /\ result.server
    /\ result.max_size >= Front.length
    /\ Whole

C12_Same ==
    /\ result.t = "Frame"
    /\ result.finished = Front.finished
    /\ result.opcode = Front.code
    /\ result.payload = Front.payload

\* C12 as stated: for every key and every payload the bytes of
\* message(genmask = true) carry the mask bit, the key and the masked payload,
\* and decode under server = true to the original payload with the same
\* opcode and finished flag.
C12_MaskedAny ==
    /\ \A i \in 1..Len(sent) : MaskedAs(sent[i])
    /\ C12_Handed => C12_Same

\* C12 amended: the layout holds for every key and payload; the decoded frame
\* is the original one for Continuation, Text and Binary frames of any
\* payload and for Close, Ping and Pong frames whose payload is at most 125
\* bytes.
C12_Masked ==
    /\ \A i \in 1..Len(sent) : MaskedAs(sent[i])
    /\ (C12_Handed /\ (Front.code \in ControlCodes => Front.length <= 125))
          => C12_Same

\* a Ping whose payload wraps around a key of four unlike bytes, its header
\* split across chunks, came back unmasked
C12_Witness ==
    /\ C12_Handed /\ C12_Same
    /\ Front.code = "Ping" /\ Front.length = MaskLen
    /\ Front.key = <<1, 2, 4, 128>>
    /\ Front.payload # SubSeq(Front.bytes, 7, 6 + MaskLen)
    /\ result.path = "slow"

(***************************************************************************)
(* C13 the Close constructor.                                              *)
(***************************************************************************)
\* the payload C13 states for the arguments close was given
C13_Payload(F) ==
    IF F.closecode = "Empty" THEN <<>>
    ELSE <<CloseCodeToU16(F.closecode) \div 256, CloseCodeToU16(F.closecode) % 256>>
         \o F.reason

\* the bytes of F are a finished Close frame with the payload C13 states
C13_Encodes(F) ==
    LET want == C13_Payload(F)
        hl == HeaderLen(F.masked, MinimalForm(Len(want)))
    IN /\ F.bytes[1] = 136
       /\ Len(F.bytes) = hl + Len(want)
       /\ read_chunk_md(F.bytes, F.masked, Len(want))
            = MdReady(hl, TRUE, "Close", Len(want), F.key)
       /\ unmask(Drop(F.bytes, hl), F.key) = want
       /\ (F.closecode = "Empty" /\ ~F.masked) => F.bytes = <<136, 0>>
       /\ (F.closecode = "Normal" /\ F.reason = <<100, 97, 116, 97>> /\ ~F.masked)
            => F.bytes = <<136, 6, 3, 232, 100, 97, 116, 97>>

\* C13: close(code, reason, genmask) writes a finished Close frame whose
\* payload is the big-endian 16-bit close code followed by the reason bytes,
\* and for CloseCode::Empty an empty payload whatever the reason: exactly
\* [0x88, 0x00] when genmask = false; a call of parse that holds the frame
\* and accepts it returns that payload when it is at most 125 bytes.
C13_Close ==
    /\ \A i \in 1..Len(sent) : C13_Encodes(sent[i])
    /\ (Decodable /\ Len(C13_Payload(Front)) <= 125)
          => Outcome = ResFrame(TRUE, "Close", C13_Payload(Front))

\* close(Empty, "data", false) was written as [0x88, 0x00] and came back as
\* a Close frame with an empty payload
C13_Witness ==
    /\ Decodable
    /\ Front.closecode = "Empty" /\ Front.reason = <<100, 97, 116, 97>>
    /\ ~Front.masked /\ Front.bytes = <<136, 0>>
    /\ Outcome = ResFrame(TRUE, "Close", <<>>)

(***************************************************************************)
(* C14 invalid opcode.                                                     *)
(***************************************************************************)
\* C14: once the first two header bytes are in the source, a call whose role
\* matches the masking of a frame with a reserved opcode nibble (3..7,
\* 11..15) fails with InvalidOpcode carrying exactly that nibble, whatever
\* the fin bit and the chunking; InvalidOpcode is returned for no other
\* frame, and no Frame that parse returns has the opcode Bad.
C14_InvalidOpcode ==
    /\ (Called /\ HasFront /\ result.had >= 2 /\ RoleOk /\ Front.code = "Bad")
          => Outcome = ResErr("InvalidOpcode", Front.nibble)
    /\ (Called /\ HasFront /\ result.e = "InvalidOpcode")
          => (RoleOk /\ Front.nibble \notin {0, 1, 2, 8, 9, 10}
              /\ result.v = Front.nibble)
    /\ result.t = "Frame" => result.opcode \in OpCodes
    /\ \A i \in 1..Len(out) : out[i].opcode \in OpCodes

\* a final masked frame with the reserved nibble 11, its first byte alone in
\* the first chunk, was refused by a server with InvalidOpcode(11)
C14_Witness ==
    /\ Called /\ HasFront /\ RoleOk
    /\ Front.nibble = 11 /\ Front.finished /\ Front.masked
    /\ result.path = "slow" /\ ~Whole
    /\ Outcome = ResErr("InvalidOpcode", 11)

(***************************************************************************)
(* C15 frames with an empty payload.                                       *)
(***************************************************************************)
\* C15: a call on a frame whose declared payload length is 0 never reaches
\* read_exact; when the role matches, the opcode is valid and the complete
\* header is in the source, the call returns a Frame with the frame's fin
\* bit and opcode and an empty payload, and removes the header bytes and
\* nothing else.
C15_ZeroLength ==
    (Called /\ HasFront /\ Front.length = 0) =>
        /\ ~result.exact
        /\ (RoleOk /\ Front.code # "Bad"
            /\ result.had >= HeaderLen(Front.masked, Front.form)) =>
              /\ Outcome = ResFrame(Front.finished, Front.code, <<>>)
              /\ result.used = HeaderLen(Front.masked, Front.form)
              /\ Consumed = result.at + HeaderLen(Front.masked, Front.form)
              /\ Buffered \o wire = Drop(all, Consumed)

\* a masked empty Ping was returned from its six header bytes while the
\* frame sent behind it stayed in the source
C15_Witness ==
    /\ Called /\ HasFront /\ Front.length = 0 /\ Front.masked
    /\ result.t = "Frame" /\ result.opcode = "Ping" /\ result.payload = <<>>
    /\ result.used = 6 /\ result.had > 6 /\ ~result.exact
    /\ Len(Buffered) = result.had - 6

(***************************************************************************)
(* C16 length forms longer than needed.                                    *)
(***************************************************************************)
\* the outcome of the same call on the front frame rewritten with its length
\* inline, in one chunk
InlineForm ==
    parse([items |-> <<>>,
           ready |-> <<RawBytes(Front.finished, Front.nibble, Front.masked, 0,
                                Key, Front.payload)>>],
          FALSE, result.server, result.max_size).res

\* C16: a frame whose payload length, below 126, is carried in the 16-bit or
\* the 64-bit form is accepted: once the whole frame is in the source, a
\* call whose role and max_size admit it returns a Frame with exactly that
\* payload, the frame's opcode and its fin bit, which is what the call
\* returns for the same frame with the length inline.
C16_NonMinimal ==
    (Decodable /\ Front.form \in {2, 8} /\ Front.length < 126) =>
        /\ Outcome = ResFrame(Front.finished, Front.code, Front.payload)
        /\ Len(result.payload) = Front.length
        /\ Outcome = InlineForm
        /\ result.used = Len(Front.bytes)

\* a masked Text frame of one byte with its length in the 64-bit form, the
\* header split across chunks, was returned with that byte as its payload
C16_Witness ==
    /\ Decodable /\ Front.form = 8 /\ Front.length = 1 /\ Front.masked
    /\ Front.code = "Text" /\ result.path = "slow"
    /\ SubSeq(Front.bytes, 2, 10) = <<255, 0, 0, 0, 0, 0, 0, 0, 1>>
    /\ Outcome = ResFrame(FALSE, "Text", Front.payload)

(***************************************************************************)
(* C17 the panic branch of parse.                                          *)
(***************************************************************************)
\* C17: no call of parse ends in the panic branch: whenever pl.read_exact is
\* reached, can_read(idx + length) has answered true and idx bytes were
\* dropped, so read_exact returns the payload, whatever the chunking.
C17_NoPanic ==
    /\ result.t # "Panic"
    /\ result.exact => result.t \in {"Frame", "Err"}

(***************************************************************************)
(* C18 the order of the checks.                                            *)
(***************************************************************************)
\* the error of the first rule the front frame breaks, in the order masking,
\* opcode, max_size, control-frame length; ResPending when it breaks none
FirstBroken ==
    IF result.server /\ ~Front.masked THEN ResErr("UnmaskedFrame", 0)
    ELSE IF ~result.server /\ Front.masked THEN ResErr("MaskedFrame", 0)
    ELSE IF Front.nibble \notin {0, 1, 2, 8, 9, 10}
         THEN ResErr("InvalidOpcode", Front.nibble)
    ELSE IF Front.length > result.max_size THEN ResErr("Overflow", 0)
    ELSE IF Front.code \in {"Ping", "Pong"} /\ Front.length > 125
         THEN ResErr("InvalidLength", Front.length)
    ELSE ResPending

\* the bytes of the front frame a call needs in the source to report e
Needs(e) ==
    CASE e \in {"UnmaskedFrame", "MaskedFrame", "InvalidOpcode"} -> 2
      [] e = "Overflow" -> 2 + Front.form
      [] OTHER -> Len(Front.bytes)

\* C18: a call that fails fails with the error of the first rule the frame
\* breaks, in the order masking, opcode, max_size, control-frame length, and
\* it does fail with it once the bytes that rule reads are in the source,
\* through read_chunk_md and through read_copy_md alike; a Close longer than
\* both 125 and max_size fails with Overflow.
C18_Precedence ==
    (Called /\ HasFront) =>
        /\ result.t = "Err" => Outcome = FirstBroken
        /\ (FirstBroken.t = "Err" /\ result.had >= Needs(FirstBroken.e))
             => Outcome = FirstBroken
        /\ (Front.code = "Close" /\ RoleOk /\ Front.length > 125
            /\ Front.length > result.max_size /\ result.had >= 2 + Front.form)
             => Outcome = ResErr("Overflow", 0)

\* a masked frame with the reserved nibble 3 and a length past max_size was
\* refused by a client with MaskedFrame through read_copy_md
C18_Witness ==
    /\ Called /\ HasFront /\ result.had >= 2
    /\ ~result.server /\ Front.masked
    /\ Front.nibble = 3 /\ Front.length > result.max_size
    /\ result.path = "slow"
    /\ Outcome = ResErr("MaskedFrame", 0)

(***************************************************************************)
(* C19 a definite outcome does not depend on what follows.                 *)
(***************************************************************************)
\* the bytes the source held at the last call
Held == SubSeq(all, result.at + 1, result.at + result.had)

\* bytes that follow them: what the peer sent behind them, then three bytes
\* of no frame
Rest == Drop(all, result.at + result.had) \o <<129, 255, 0>>

\* a source that holds bytes as one chunk, or as two chunks cut at cut
Source(bytes, cut) ==
    [items |-> <<>>,
     ready |-> IF cut = 0 \/ cut >= Len(bytes) THEN <<bytes>>
               ELSE <<Take(bytes, cut), Drop(bytes, cut)>>]

\* C19: when a call returned a Frame or a protocol error on a source holding
\* the bytes p, a call with the same role and max_size on a source holding p
\* followed by any further bytes returns the same Frame or the same error,
\* whether the bytes come as one chunk or cut in two at any place, and
\* whether or not the stream has ended: more bytes never change a definite
\* outcome.
C19_PrefixStable ==
    (Called /\ result.t \in {"Frame", "Err"}) =>
        \A j \in 0..Len(Rest), e \in BOOLEAN :
            \A cut \in 0..(result.had + j) :
                parse(Source(Held \o Take(Rest, j), cut), e,
                      result.server, result.max_size).res = Outcome

\* a call returned Overflow on the four length bytes of a frame in the 16-bit
\* form, more of the frame being still to come
C19_Witness ==
    /\ Called /\ HasFront /\ ~Whole
    /\ Outcome = ResErr("Overflow", 0)
    /\ result.had = 4 /\ Front.form = 2 /\ Len(Rest) > 3
    /\ parse(Source(Held \o Rest, result.had), FALSE,
             result.server, result.max_size).res = Outcome

(***************************************************************************)
(* C20 a call removes a whole frame or nothing.                            *)
(***************************************************************************)
\* the header length of the front frame as the call reads it
C20_HeaderLength == 2 + Front.form + (IF result.server THEN 4 ELSE 0)

\* C20: a call of parse that returns has removed from the source either no
\* byte or exactly header_length + payload_length bytes of the front frame;
\* it removes the frame exactly when it returns a Frame (the default Close
\* included) or InvalidLength; header_length is 2, 4 or 10 for server = false
\* and 6, 8 or 14 for server = true.
C20_Atomic ==
    (Called /\ HasFront /\ result.t # "Panic") =>
        /\ result.used \in {0, C20_HeaderLength + Front.length}
        /\ result.used # 0
             <=> (result.t = "Frame" \/ Outcome = ResErr("InvalidLength", Front.length))
        /\ result.used # 0 =>
             /\ result.used = Len(Front.bytes)
             /\ C20_HeaderLength
                  \in (IF result.server THEN {6, 8, 14} ELSE {2, 4, 10})

====
